---- MODULE Spec2Model ----
(***************************************************************************)
(* A model of the DHT node: the routing table of table.rs (XOR distance,   *)
(* bucket lookup, bucket split with compaction), the identifier helpers of *)
(* messages.rs, and the send / receive / timeout handlers of main.rs.      *)
(***************************************************************************)
EXTENDS Integers, Sequences, FiniteSets, TLC

VARIABLES
    id,        \* Table.id: our own NodeId
    buckets,   \* Table.buckets: sequence of buckets, each a sequence of K slots
    arg,       \* node id of the latest allocate call (<<>> before any call)
    ret,       \* what the latest allocate returned: None or <<bucket, slot>> (0-based)
    pc,        \* "idle", or "returned": allocate has returned and the caller holds `ret`,
               \* or "panicked": an assertion has failed in allocate
    fa, fb,    \* inputs of the pure functions (two NodeIds)
    fres,      \* <<>>, then <<distance>>, then <<distance, count_zeros>>
    estate,    \* the process: "init", "running", "exited" or "panicked"
    sent,      \* the queries handed to the socket in full, in order
    timers,    \* armed timeouts: indices into `sent`
    fired,     \* the timeouts whose callback has run, in order
    answered,  \* indices of the queries whose tx id came back in a response
               \* while their timeout was still armed
    event,     \* what the latest handler call met and did (kept in the
               \* observed runs of serve)
    cin,       \* input of the message functions of messages.rs
    cout       \* <<>>, then the results of the message functions so far

tvars == <<id, buckets, arg, ret, pc>>
fvars == <<fa, fb, fres, cin, cout>>
evars == <<estate, sent, timers, fired, answered, event>>
vars == <<id, buckets, arg, ret, pc, fa, fb, fres, cin, cout,
          estate, sent, timers, fired, answered, event>>

(***************************************************************************)
(* Program constants                                                       *)
(***************************************************************************)
NODE_ID_LEN == 20
MAX_BUCKETS == NODE_ID_LEN * 8 + 1
K == 8

(***************************************************************************)
(* Bounds of the model                                                     *)
(***************************************************************************)
MaxDepth == 3      \* cap on the bucket count in the general table runs
FarCount == 9      \* number of distinct far nodes offered in the overflow runs
MaxTxLen == 3      \* longest arbitrary-form tx id given to the message functions
MaxNodes == 3      \* longest contact list given to FullResponse::from_bencode

\* Option: None is the empty sequence, Some(x) the one-element sequence
None == <<>>
Some(x) == <<x>>

(***************************************************************************)
(* u8 bit operations                                                       *)
(***************************************************************************)
RECURSIVE BitAnd(_, _)
BitAnd(a, b) ==
    IF a = 0 \/ b = 0 THEN 0
    ELSE (a % 2) * (b % 2) + 2 * BitAnd(a \div 2, b \div 2)

RECURSIVE BitXor(_, _)
BitXor(a, b) ==
    IF a = 0 THEN b
    ELSE IF b = 0 THEN a
    ELSE (((a % 2) + (b % 2)) % 2) + 2 * BitXor(a \div 2, b \div 2)

RECURSIVE Pow2(_)
Pow2(n) == IF n = 0 THEN 1 ELSE 2 * Pow2(n - 1)

\* u8 >> n
Shr(a, n) == a \div Pow2(n)

(***************************************************************************)
(* NodeId (messages.rs): 20 bytes, a sequence indexed 1..NODE_ID_LEN       *)
(***************************************************************************)
\* NodeId::bit: bit 0 is the most significant bit of byte 0
bit(n, index) ==
    LET mask == Pow2(7 - (index % 8))
    IN  BitAnd(n[(index \div 8) + 1], mask) # 0

\* the debug_assert! of NodeId::bit holds for this index
bit_asserted(index) == index < NODE_ID_LEN * 8

(***************************************************************************)
(* Distance (table.rs)                                                     *)
(***************************************************************************)
between(a, b) == [i \in 1..NODE_ID_LEN |-> BitXor(a[i], b[i])]

\* the inner loop of count_zeros as it would be if it ran 4 rounds only
RECURSIVE scan_mask_four_rounds(_, _, _)
scan_mask_four_rounds(bits, mask, n) ==
    IF n >= 4 THEN None
    ELSE IF BitAnd(mask, bits) # 0 THEN Some(n)
    ELSE scan_mask_four_rounds(bits, Shr(mask, 1), n + 1)

\* the inner loop of count_zeros: the first n_extra_zeros in n..7 whose mask
\* meets `bits`, the mask starting at 0xf0 and shifted right once per round;
\* None when the loop runs out
RECURSIVE scan_mask(_, _, _)
scan_mask(bits, mask, n) ==
    IF n = 8 THEN None
    ELSE IF BitAnd(mask, bits) # 0 THEN Some(n)
    ELSE scan_mask(bits, Shr(mask, 1), n + 1)

RECURSIVE count_zeros_from(_, _)
count_zeros_from(d, i) ==
    IF i = NODE_ID_LEN THEN NODE_ID_LEN * 8
    ELSE IF d[i + 1] = 0 THEN count_zeros_from(d, i + 1)
    ELSE LET r == scan_mask(d[i + 1], 240, 0)
         IN  IF r # None THEN i * 8 + r[1] ELSE count_zeros_from(d, i + 1)

\* count_zeros as it would be if the byte loop stopped one byte early
RECURSIVE count_zeros_short_from(_, _)
count_zeros_short_from(d, i) ==
    IF i = NODE_ID_LEN - 1 THEN NODE_ID_LEN * 8
    ELSE IF d[i + 1] = 0 THEN count_zeros_short_from(d, i + 1)
    ELSE LET r == scan_mask(d[i + 1], 240, 0)
         IN  IF r # None THEN i * 8 + r[1] ELSE count_zeros_short_from(d, i + 1)

count_zeros_short(d) == count_zeros_short_from(d, 0)

count_zeros(d) == count_zeros_from(d, 0)

\* whether a debug assertion of count_zeros fails on its way through d from
\* byte i on: after an inner loop that ran out the mask is 0xf0 >> 8 = 0
\* where 1 is asserted, and at the final return d is asserted to be all zero
RECURSIVE count_zeros_fails_from(_, _)
count_zeros_fails_from(d, i) ==
    IF i = NODE_ID_LEN THEN \E k \in 1..NODE_ID_LEN : d[k] # 0
    ELSE IF d[i + 1] = 0 THEN count_zeros_fails_from(d, i + 1)
    ELSE IF scan_mask(d[i + 1], 240, 0) # None THEN FALSE
    ELSE Shr(240, 8) # 1

count_zeros_fails(d) == count_zeros_fails_from(d, 0)

(***************************************************************************)
(* Slot, Bucket (table.rs)                                                 *)
(***************************************************************************)
Empty == [tag |-> "Empty"]
Node(n, st) == [tag |-> "Node", id |-> n, state |-> st]
is_empty(slot) == slot.tag = "Empty"
NodeStates == {"Pinging", "Good"}

BucketNew == [i \in 1..K |-> Empty]

\* Bucket::locate: index (0-based) of the first slot that is Empty or holds
\* `n`; None when there is no such slot
RECURSIVE locate_from(_, _, _)
locate_from(slots, n, i) ==
    IF i = K THEN None
    ELSE IF is_empty(slots[i + 1]) \/ slots[i + 1].id = n THEN Some(i)
    ELSE locate_from(slots, n, i + 1)

\* Bucket::locate as it would be if it took the first slot whatever it holds
locate_first(slots, n) == Some(0)

locate(slots, n) == locate_from(slots, n, 0)

(***************************************************************************)
(* Table (table.rs)                                                        *)
(***************************************************************************)
\* Table::new as it would be with an empty bucket vector
TableNewEmpty(n) == [buckets |-> <<>>, id |-> n]

TableNew(n) == [buckets |-> <<BucketNew>>, id |-> n]

\* the search `for i in g+1..src` of spill: the first empty slot of
\* before[g+1..src), or src when there is none
RECURSIVE earlier_gap(_, _, _)
earlier_gap(slots, i, src) ==
    IF i >= src THEN src
    ELSE IF is_empty(slots[i + 1]) THEN i
    ELSE earlier_gap(slots, i + 1, src)

\* the scan of spill as it would be if a spilled node were copied into the
\* new bucket and its old slot kept
RECURSIVE spill_scan_copying(_, _, _)
spill_scan_copying(st, our_bit, bit_index) ==
    IF st.i = K THEN st
    ELSE
      LET s == st.src[st.i + 1]
      IN  IF ~is_empty(s) /\ our_bit = bit(s.id, bit_index)
          THEN spill_scan_copying([st EXCEPT !.i = @ + 1,
                                             !.dest[st.dest_slot + 1] = s,
                                             !.dest_slot = @ + 1],
                                  our_bit, bit_index)
          ELSE spill_scan_copying([st EXCEPT !.i = @ + 1], our_bit, bit_index)

\* the scan of spill as it would be without the compaction: a node that
\* stays behind stays in its slot
RECURSIVE spill_scan_no_compaction(_, _, _)
spill_scan_no_compaction(st, our_bit, bit_index) ==
    IF st.i = K THEN st
    ELSE
      LET s == st.src[st.i + 1]
      IN  IF ~is_empty(s) /\ our_bit = bit(s.id, bit_index)
          THEN spill_scan_no_compaction([st EXCEPT !.i = @ + 1,
                                                   !.dest[st.dest_slot + 1] = s,
                                                   !.dest_slot = @ + 1,
                                                   !.src[st.i + 1] = Empty],
                                        our_bit, bit_index)
          ELSE spill_scan_no_compaction([st EXCEPT !.i = @ + 1], our_bit, bit_index)

\* the scan `for src in 0..K` of spill.  st = [i, src, dest, dest_slot, gap,
\* failed] holds the loop index, the source bucket's slots, the new bucket's
\* slots, the insertion index, the tracked gap (None or Some(index)) and
\* whether a write went past the new bucket or the debug assertion after the
\* swap has failed
RECURSIVE spill_scan(_, _, _)
spill_scan(st, our_bit, bit_index) ==
    IF st.i = K THEN st
    ELSE
      LET s == st.src[st.i + 1]
      IN  IF is_empty(s)
          THEN spill_scan([st EXCEPT !.i = @ + 1,
                                     !.gap = IF @ = None THEN Some(st.i) ELSE @],
                          our_bit, bit_index)
          ELSE IF our_bit = bit(s.id, bit_index)
          THEN spill_scan([st EXCEPT !.i = @ + 1,
                                     !.dest = IF st.dest_slot < K
                                              THEN [@ EXCEPT ![st.dest_slot + 1] = s]
                                              ELSE @,
                                     !.failed = @ \/ ~(st.dest_slot < K),
                                     !.dest_slot = @ + 1,
                                     !.src[st.i + 1] = Empty,
                                     !.gap = IF @ = None THEN Some(st.i) ELSE @],
                          our_bit, bit_index)
          ELSE IF st.gap # None
          THEN LET g == st.gap[1]
                   swapped == [st.src EXCEPT ![g + 1] = s,
                                             ![st.i + 1] = st.src[g + 1]]
               IN  spill_scan([st EXCEPT !.i = @ + 1,
                                         !.src = swapped,
                                         !.failed = @ \/ ~is_empty(swapped[st.i + 1]),
                                         !.gap = Some(earlier_gap(swapped, g + 1, st.i))],
                              our_bit, bit_index)
          ELSE spill_scan([st EXCEPT !.i = @ + 1], our_bit, bit_index)

\* spill as it would be if a new bucket that the moved nodes fill were
\* dropped instead of pushed
spill_discards_full(t) ==
    IF ~(Len(t.buckets) # 0 /\ Len(t.buckets) < MAX_BUCKETS)
    THEN [table |-> t, ret |-> None, failed |-> TRUE]
    ELSE
    LET bit_index == Len(t.buckets) - 1
        our_bit   == bit(t.id, bit_index)
        fin == spill_scan([i |-> 0, src |-> t.buckets[bit_index + 1],
                           dest |-> BucketNew, dest_slot |-> 0, gap |-> None,
                           failed |-> FALSE],
                          our_bit, bit_index)
        bucket_index == Len(t.buckets)
        kept   == [t.buckets EXCEPT ![bit_index + 1] = fin.src]
        pushed == IF fin.dest_slot < K THEN Append(kept, fin.dest) ELSE kept
    IN  [table  |-> [t EXCEPT !.buckets = pushed],
         ret    |-> IF fin.dest_slot < K THEN <<bucket_index, fin.dest_slot>>
                    ELSE None,
         failed |-> fin.failed \/ ~bit_asserted(bit_index)]

\* Table::spill: [table, ret, failed].  failed: one of the two assert! at
\* its head does not hold (the table is then left alone), or an assertion
\* fails on the way
spill(t) ==
    IF ~(Len(t.buckets) # 0 /\ Len(t.buckets) < MAX_BUCKETS)
    THEN [table |-> t, ret |-> None, failed |-> TRUE]
    ELSE
    LET bit_index == Len(t.buckets) - 1
        our_bit   == bit(t.id, bit_index)
        fin == spill_scan([i |-> 0, src |-> t.buckets[bit_index + 1],
                           dest |-> BucketNew, dest_slot |-> 0, gap |-> None,
                           failed |-> FALSE],
                          our_bit, bit_index)
        bucket_index == Len(t.buckets)
        pushed == Append([t.buckets EXCEPT ![bit_index + 1] = fin.src], fin.dest)
    IN  [table  |-> [t EXCEPT !.buckets = pushed],
         ret    |-> IF fin.dest_slot < K THEN <<bucket_index, fin.dest_slot>>
                    ELSE None,
         failed |-> fin.failed \/ ~bit_asserted(bit_index)]

\* allocate as it would be if it kept splitting until the node's bucket exists
RECURSIVE allocate_resplit(_, _)
allocate_resplit(t, node_id) ==
    LET common_bits == count_zeros(between(t.id, node_id))
        n           == Len(t.buckets)
        found == IF common_bits < n
                 THEN locate(t.buckets[common_bits + 1], node_id)
                 ELSE None
    IN  IF found # None
        THEN [table |-> t, ret |-> <<common_bits, found[1]>>, failed |-> FALSE]
        ELSE IF common_bits >= n /\ n < MAX_BUCKETS
        THEN IF common_bits >= n + 1 /\ n + 1 < MAX_BUCKETS
             THEN allocate_resplit(spill(t).table, node_id)
             ELSE spill(t)
        ELSE [table |-> t, ret |-> None, failed |-> FALSE]

\* Table::allocate: [table, ret, failed]; failed: an assertion of
\* count_zeros or of spill has failed in the call
allocate(t, node_id) ==
    LET distance    == between(t.id, node_id)
        common_bits == count_zeros(distance)
        n           == Len(t.buckets)
        found == IF common_bits < n
                 THEN locate(t.buckets[common_bits + 1], node_id)
                 ELSE None
    IN  IF count_zeros_fails(distance)
        THEN [table |-> t, ret |-> None, failed |-> TRUE]
        ELSE IF found # None
        THEN [table |-> t, ret |-> <<common_bits, found[1]>>, failed |-> FALSE]
        ELSE IF common_bits >= n /\ n < MAX_BUCKETS
        THEN spill(t)
        ELSE [table |-> t, ret |-> None, failed |-> FALSE]

(***************************************************************************)
(* Inputs: node ids are given by their XOR distance to our id              *)
(***************************************************************************)
Zero == [i \in 1..NODE_ID_LEN |-> 0]

\* the id at distance <<d1, 0, ..., 0, d20>> of `n`
At(n, d1, d20) == [n EXCEPT ![1] = BitXor(@, d1), ![NODE_ID_LEN] = BitXor(@, d20)]

\* our id: first byte 0xA5, so that our bits 0..7 are 1,0,1,0,0,1,0,1
OurId == [Zero EXCEPT ![1] = 165, ![2] = 60]

\* first distance bytes of the nodes offered to allocate in the general runs:
\* 0x80 (no shared bit), 0x40 (1 shared bit), 0x04 (5 shared bits) and 0 (our
\* own id, all 160 bits shared)
FirstBytes == {128, 64, 4, 0}

Pool == {At(OurId, d, 0) : d \in FirstBytes}

(***************************************************************************)
(* The table under its callers                                             *)
(***************************************************************************)
TableInit ==
    /\ id = TableNew(OurId).id
    /\ buckets = TableNew(OurId).buckets
    /\ arg = <<>>
    /\ ret = None
    /\ pc = "idle"

FnIdle ==
    /\ fa = Zero
    /\ fb = Zero
    /\ fres = <<>>
    /\ cin = <<>>
    /\ cout = <<>>

EngineIdle ==
    /\ estate = "init"
    /\ sent = <<>>
    /\ timers = {}
    /\ fired = <<>>
    /\ answered = {}
    /\ event = [h |-> "none", n |-> 0]

\* a call of Table::allocate(node_id), taken while the table stays within
\* `cap` buckets
AllocateWithin(node_id, cap) ==
    /\ pc = "idle"
    /\ \E r \in {allocate([buckets |-> buckets, id |-> id], node_id)} :
           /\ Len(r.table.buckets) <= cap
           /\ buckets' = r.table.buckets
           /\ ret' = r.ret
           /\ pc' = IF r.failed THEN "panicked" ELSE "returned"
    /\ arg' = node_id
    /\ UNCHANGED <<id, fvars, evars>>

Allocate(node_id) == AllocateWithin(node_id, MaxDepth)

\* the caller uses what allocate returned.  Through the `&mut Slot` it was
\* handed it stores: an Empty slot becomes Node(arg, st), a slot that holds a
\* node gets the state st.  Handed None, it has nothing to store
Caller(st) ==
    /\ pc = "returned"
    /\ IF ret # None
       THEN LET b == ret[1] + 1
                s == ret[2] + 1
                old == buckets[b][s]
            IN  buckets' = [buckets EXCEPT ![b][s] =
                               IF is_empty(old) THEN Node(arg, st) ELSE Node(old.id, st)]
       ELSE buckets' = buckets
    /\ pc' = "idle"
    /\ UNCHANGED <<id, arg, ret, fvars, evars>>

\* the caller stores nothing in the slot it was handed
CallerLeave ==
    /\ pc = "returned"
    /\ pc' = "idle"
    /\ UNCHANGED <<id, buckets, arg, ret, fvars, evars>>

Init == TableInit /\ FnIdle /\ EngineIdle

Next ==
    \/ \E n \in Pool : Allocate(n)
    \/ \E st \in NodeStates : Caller(st)
    \/ CallerLeave

Spec == Init /\ [][Next]_vars

(***************************************************************************)
(* Properties of the table                                                 *)
(***************************************************************************)
\* the number of leading zero bits of a byte: the n with 2^(7-n) <= v < 2^(8-n)
LeadingZeros8(v) ==
    CHOOSE n \in 0..8 : v < Pow2(8 - n) /\ (n = 8 \/ v >= Pow2(7 - n))

\* the number of leading zero bits of a 20-byte value
LeadingZeros(d) ==
    LET nz == {i \in 0..(NODE_ID_LEN - 1) : d[i + 1] # 0}
    IN  IF nz = {} THEN NODE_ID_LEN * 8
        ELSE LET i == CHOOSE x \in nz : \A y \in nz : x <= y
             IN  8 * i + LeadingZeros8(d[i + 1])

\* the number of leading bits in which the ids a and b agree
SharedPrefix(a, b) == LeadingZeros([k \in 1..NODE_ID_LEN |-> BitXor(a[k], b[k])])

\* the 0-based positions <<bucket, slot>> that hold node n
Holding(n) ==
    {p \in (0..(Len(buckets) - 1)) \X (0..(K - 1)) :
        /\ ~is_empty(buckets[p[1] + 1][p[2] + 1])
        /\ buckets[p[1] + 1][p[2] + 1].id = n}

\* C1: in every bucket other than the last, every occupied slot holds a node
\* that shares exactly as many leading bits with our id as the bucket's index
C1_ExactPrefixInBucket ==
    \A b \in 1..(Len(buckets) - 1) : \A s \in 1..K :
        ~is_empty(buckets[b][s]) => SharedPrefix(id, buckets[b][s].id) = b - 1

\* C2: allocate of a node id the table already holds returns the slot that
\* holds it (whichever bucket that is), never None and never another slot
C2_AllocateReturnsExisting ==
    (pc = "returned" /\ Holding(arg) # {}) => (ret # None /\ ret \in Holding(arg))

\* C5: the table starts with one bucket, and every step leaves the bucket
\* count as it is or raises it by exactly one
C5_GrowsByOne ==
    /\ Len(buckets) = 1
    /\ [][Len(buckets') = Len(buckets) \/ Len(buckets') = Len(buckets) + 1]_vars

\* an allocate call has just split the last bucket of a table that had
\* already grown before
C5_Witness == pc = "returned" /\ Len(buckets) = 3 /\ ret # None /\ ret[1] = 2

(***************************************************************************)
(* Distance::between and Distance::count_zeros on their own                *)
(***************************************************************************)
\* byte positions (0-based) of the first non-zero byte of the distances tried
FnPositions == {0, 1, NODE_ID_LEN - 1}

\* the distance whose bytes before position i are zero, whose byte i is v and
\* whose later bytes are all `rest`
DistanceAt(i, v, rest) ==
    [k \in 1..NODE_ID_LEN |-> IF k < i + 1 THEN 0 ELSE IF k = i + 1 THEN v ELSE rest]

FnDistances == {DistanceAt(i, v, rest) : i \in FnPositions, v \in 0..255, rest \in {0, 255}}

FnInit ==
    /\ fa \in {Zero, OurId}
    /\ fb \in {[k \in 1..NODE_ID_LEN |-> BitXor(fa[k], d[k])] : d \in FnDistances}
    /\ fres = <<>>
    /\ cin = <<>>
    /\ cout = <<>>

\* Distance::between(&fa, &fb)
FnBetween ==
    /\ Len(fres) = 0
    /\ fres' = <<between(fa, fb)>>
    /\ UNCHANGED <<fa, fb, cin, cout, tvars, evars>>

\* distance.count_zeros()
FnCountZeros ==
    /\ Len(fres) = 1
    /\ fres' = <<fres[1], count_zeros(fres[1])>>
    /\ UNCHANGED <<fa, fb, cin, cout, tvars, evars>>

FnNext == FnBetween \/ FnCountZeros

FnSpecInit == TableInit /\ FnInit /\ EngineIdle

SpecFn == FnSpecInit /\ [][FnNext]_vars

\* C3: count_zeros returns the number of leading zero bits of the distance,
\* 8*i plus the leading zero bits of the first non-zero byte i
C3_CountZerosIsLeadingZeros ==
    Len(fres) = 2 => fres[2] = LeadingZeros(fres[1])

\* C7: the shared-prefix-length of distance(a, b) is 160 iff a = b
C7_FullPrefixIffEqual ==
    Len(fres) = 2 => ((fres[2] = NODE_ID_LEN * 8) <=> (fa = fb))

\* two ids that differ in nothing but the lowest bit of the last byte have
\* been measured
C7_Witness ==
    /\ Len(fres) = 2
    /\ fa # fb
    /\ fres[1] = DistanceAt(NODE_ID_LEN - 1, 1, 0)

(***************************************************************************)
(* Overflow of bucket 0: only nodes that share no leading bit with our id  *)
(***************************************************************************)
\* the k-th far node: its distance starts with the byte 0x80 + k
FarNode(k) == At(OurId, 128 + k, 0)

FarIndex(n) == BitXor(n[1], OurId[1]) - 128

\* far nodes are offered in increasing order, so that no node is offered twice
AllocateFar ==
    \E k \in 0..(FarCount - 1) :
        /\ arg # <<>> => k > FarIndex(arg)
        /\ Allocate(FarNode(k))

OverflowNext ==
    \/ AllocateFar
    \/ \E st \in NodeStates : Caller(st)

SpecOverflow == Init /\ [][OverflowNext]_vars

Occupied(b) == {s \in 1..K : ~is_empty(buckets[b][s])}

\* bucket 0 holds 8 far nodes and allocate has just returned for a ninth
NinthFarReturned ==
    /\ pc = "returned"
    /\ Cardinality(Occupied(1)) = K
    /\ Holding(arg) = {}

NoDeeperNodeInBucket0 ==
    \A s \in Occupied(1) : SharedPrefix(id, buckets[1][s].id) = 0

\* C4: after 9 distinct far nodes the table has at least 2 buckets
\* and bucket 0 holds no node that shares a leading bit with our id
C4_OverflowSplits ==
    NinthFarReturned => (Len(buckets) >= 2 /\ NoDeeperNodeInBucket0)

(***************************************************************************)
(* Growth to full depth: nodes that share almost all bits with our id      *)
(***************************************************************************)
\* our own id (all 160 bits shared) and the id that differs from it in the
\* lowest bit only (159 bits shared)
DeepPool == {OurId, At(OurId, 0, 1)}

\* no cap below the one the code enforces: one more than MAX_BUCKETS lets a
\* table that outgrows MAX_BUCKETS show
AllocateDeep == \E n \in DeepPool : AllocateWithin(n, MAX_BUCKETS + 1)

DeepNext ==
    \/ AllocateDeep
    \/ Caller("Good")

SpecDeep == Init /\ [][DeepNext]_vars

\* C6: the table always has between 1 and 161 buckets of exactly K slots
\* each, and once it has 161 buckets no step adds another
C6_BucketCountBounded ==
    /\ [](/\ Len(buckets) >= 1
          /\ Len(buckets) <= NODE_ID_LEN * 8 + 1
          /\ \A b \in 1..Len(buckets) : DOMAIN buckets[b] = 1..K)
    /\ [][Len(buckets) = NODE_ID_LEN * 8 + 1 => Len(buckets') = Len(buckets)]_vars

\* allocate was called on a table of 161 buckets and returned the slot of
\* bucket 160 that already held our own id
C6_Witness ==
    /\ pc = "returned"
    /\ Len(buckets) = NODE_ID_LEN * 8 + 1
    /\ arg = OurId
    /\ ret \in Holding(OurId)

(***************************************************************************)
(* Bencode values, as the bencode crate hands them to main.rs              *)
(***************************************************************************)
\* byte strings are sequences of bytes; dictionaries are functions from keys
BBytes(v) == [t |-> "ByteString", v |-> v]
BDict(v)  == [t |-> "Dict", v |-> v]
\* an i64 number n is kept as <<hi, lo>> with n = hi * 2^31 + lo, 0 <= lo < 2^31
BNumber(v) == [t |-> "Number", v |-> v]
BList(v) == [t |-> "List", v |-> v]

Ok(v)  == [ok |-> TRUE, v |-> v]
Err(e) == [ok |-> FALSE, e |-> e]

\* b"q", b"r", b"e", b"ping"
B_q == <<113>>
B_r == <<114>>
B_e == <<101>>
B_ping == <<112, 105, 110, 103>>

\* BencodeExt (main.rs)
bytes(b) == IF b.t = "ByteString" THEN Ok(b.v) ELSE Err("WrongType")
dict(b)  == IF b.t = "Dict" THEN Ok(b.v) ELSE Err("WrongType")
array(b) == IF b.t = "List" THEN Ok(b.v) ELSE Err("WrongType")
\* n >= 0 is hi >= 0, and n <= u32::MAX = 2^32 - 1 is hi <= 1
u32(b) ==
    IF b.t = "Number"
    THEN IF b.v[1] >= 0 /\ b.v[1] <= 1 THEN Ok(b.v) ELSE Err("OutOfRange")
    ELSE Err("WrongType")

\* DictExt::lookup
lookup(d, key) == IF key \in DOMAIN d THEN Ok(d[key]) ELSE Err("KeyMissing")

\* lookup(key) followed by bytes(), dict() or array(), each with `?`
lookup_bytes(d, key) == IF lookup(d, key).ok THEN bytes(lookup(d, key).v) ELSE lookup(d, key)
lookup_dict(d, key)  == IF lookup(d, key).ok THEN dict(lookup(d, key).v) ELSE lookup(d, key)
lookup_array(d, key) == IF lookup(d, key).ok THEN array(lookup(d, key).v) ELSE lookup(d, key)

(***************************************************************************)
(* TxId, NodeId and the messages of main.rs                                *)
(***************************************************************************)
\* alpha() of TxId::random, on the random byte r
alpha(r) ==
    LET n == r % 52
    IN  IF n >= 26 THEN n - 26 + 97 ELSE n + 65

\* TxId::random, on the two random bytes drawn
TxId_random(r1, r2) == [form |-> "Short", bytes |-> <<alpha(r1), alpha(r2)>>]

\* TxId::as_slice
as_slice(tx) == tx.bytes

\* #[derive(PartialEq)] on the TxId of main.rs: two ids are equal when they
\* are of the same variant and hold the same payload
main_TxId_eq(a, b) == a.form = b.form /\ a.bytes = b.bytes

\* TxId::from_bencode
TxId_from_bencode(b) ==
    IF ~bytes(b).ok THEN bytes(b)
    ELSE IF Len(bytes(b).v) = 2
    THEN Ok([form |-> "Short", bytes |-> bytes(b).v])
    ELSE Ok([form |-> "Arbitrary", bytes |-> bytes(b).v])

\* NodeId::from_bencode
NodeId_from_bencode(b) ==
    IF ~bytes(b).ok THEN bytes(b)
    ELSE IF Len(bytes(b).v) = 20 THEN Ok(bytes(b).v)
    ELSE Err("WrongLength")

\* FullQuery::from_bencode
FullQuery_from_bencode(b) ==
    IF ~dict(b).ok THEN dict(b) ELSE
    LET d == dict(b).v IN
    IF ~lookup_bytes(d, "y").ok THEN lookup_bytes(d, "y") ELSE
    IF lookup_bytes(d, "y").v # B_q THEN Err("WrongDiscrim") ELSE
    IF ~lookup_dict(d, "a").ok THEN lookup_dict(d, "a") ELSE
    LET args == lookup_dict(d, "a").v IN
    IF ~lookup(args, "id").ok THEN lookup(args, "id") ELSE
    LET sender_id == NodeId_from_bencode(args["id"]) IN
    IF ~sender_id.ok THEN sender_id ELSE
    IF ~lookup(d, "t").ok THEN lookup(d, "t") ELSE
    LET tx_id == TxId_from_bencode(d["t"]) IN
    IF ~tx_id.ok THEN tx_id ELSE
    IF ~lookup_bytes(d, "q").ok THEN lookup_bytes(d, "q") ELSE
    IF lookup_bytes(d, "q").v # B_ping THEN Err("InvalidDiscrim") ELSE
    Ok([kind |-> "Query", query |-> "Ping", sender_id |-> sender_id.v, tx_id |-> tx_id.v])

\* FullResponse::from_bencode
FullResponse_from_bencode(b) ==
    IF ~dict(b).ok THEN dict(b) ELSE
    LET d == dict(b).v IN
    IF ~lookup_bytes(d, "y").ok THEN lookup_bytes(d, "y") ELSE
    IF lookup_bytes(d, "y").v # B_r THEN Err("WrongDiscrim") ELSE
    IF ~lookup_dict(d, "r").ok THEN lookup_dict(d, "r") ELSE
    LET args == lookup_dict(d, "r").v IN
    IF ~lookup(args, "id").ok THEN lookup(args, "id") ELSE
    LET sender_id == NodeId_from_bencode(args["id"]) IN
    IF ~sender_id.ok THEN sender_id ELSE
    IF ~lookup(d, "t").ok THEN lookup(d, "t") ELSE
    LET tx_id == TxId_from_bencode(d["t"]) IN
    IF ~tx_id.ok THEN tx_id ELSE
    Ok([kind |-> "Response", response |-> "Pong", sender_id |-> sender_id.v,
        tx_id |-> tx_id.v])

\* String::from_utf8_lossy, the text given as its UTF-8 bytes: well-formed
\* sequences are kept, and each maximal ill-formed one (a lead byte with the
\* continuation bytes that fit it, or one stray byte) becomes U+FFFD,
\* ef bf bd
REPLACEMENT == <<239, 191, 189>>

\* the byte at 0-based index i, or 0 past the end (never a continuation)
safe_get(b, i) == IF i < Len(b) THEN b[i + 1] ELSE 0

is_cont(x) == x >= 128 /\ x <= 191

\* whether x may follow the lead byte `first` of a 3- or 4-byte sequence
second_fits(first, x) ==
    IF first = 224 THEN x >= 160 /\ x <= 191
    ELSE IF first = 237 THEN x >= 128 /\ x <= 159
    ELSE IF first = 240 THEN x >= 144 /\ x <= 191
    ELSE IF first = 244 THEN x >= 128 /\ x <= 143
    ELSE is_cont(x)

\* 1..4 for a lead byte of a sequence of that length, 0 for a byte that
\* starts none
utf8_char_width(x) ==
    IF x < 128 THEN 1
    ELSE IF x >= 194 /\ x <= 223 THEN 2
    ELSE IF x >= 224 /\ x <= 239 THEN 3
    ELSE IF x >= 240 /\ x <= 244 THEN 4
    ELSE 0

\* [ok, len]: the sequence that starts at i is well-formed and len bytes
\* long, or ill-formed in its first len bytes
utf8_sequence(b, i) ==
    LET first == b[i + 1]
        w     == utf8_char_width(first)
    IN  IF w = 1 THEN [ok |-> TRUE, len |-> 1]
        ELSE IF w = 0 THEN [ok |-> FALSE, len |-> 1]
        ELSE IF w = 2
        THEN IF is_cont(safe_get(b, i + 1)) THEN [ok |-> TRUE, len |-> 2]
             ELSE [ok |-> FALSE, len |-> 1]
        ELSE IF ~second_fits(first, safe_get(b, i + 1)) THEN [ok |-> FALSE, len |-> 1]
        ELSE IF ~is_cont(safe_get(b, i + 2)) THEN [ok |-> FALSE, len |-> 2]
        ELSE IF w = 3 THEN [ok |-> TRUE, len |-> 3]
        ELSE IF ~is_cont(safe_get(b, i + 3)) THEN [ok |-> FALSE, len |-> 3]
        ELSE [ok |-> TRUE, len |-> 4]

RECURSIVE from_utf8_lossy_from(_, _)
from_utf8_lossy_from(b, i) ==
    IF i >= Len(b) THEN <<>>
    ELSE LET q == utf8_sequence(b, i)
         IN  (IF q.ok THEN SubSeq(b, i + 1, i + q.len) ELSE REPLACEMENT)
             \o from_utf8_lossy_from(b, i + q.len)

from_utf8_lossy(b) == from_utf8_lossy_from(b, 0)

\* DhtError::from_bencode; the message is the text from_utf8_lossy makes of
\* the bytes, kept as its UTF-8 bytes
DhtError_from_bencode(b) ==
    IF ~dict(b).ok THEN dict(b) ELSE
    LET d == dict(b).v IN
    IF ~lookup_bytes(d, "y").ok THEN lookup_bytes(d, "y") ELSE
    IF lookup_bytes(d, "y").v # B_e THEN Err("WrongDiscrim") ELSE
    IF ~lookup(d, "t").ok THEN lookup(d, "t") ELSE
    LET tx_id == TxId_from_bencode(d["t"]) IN
    IF ~tx_id.ok THEN tx_id ELSE
    IF ~lookup_array(d, "e").ok THEN lookup_array(d, "e") ELSE
    LET args == lookup_array(d, "e").v IN
    IF Len(args) # 2 THEN Err("WrongLength") ELSE
    IF ~u32(args[1]).ok THEN u32(args[1]) ELSE
    IF ~bytes(args[2]).ok THEN bytes(args[2]) ELSE
    Ok([kind |-> "Error", message |-> from_utf8_lossy(bytes(args[2]).v),
        code |-> u32(args[1]).v,
        tx_id |-> tx_id.v])

\* DhtMessage::from_bencode
DhtMessage_from_bencode(b) ==
    IF ~dict(b).ok THEN dict(b) ELSE
    IF ~lookup_bytes(dict(b).v, "y").ok THEN lookup_bytes(dict(b).v, "y") ELSE
    LET discrim == lookup_bytes(dict(b).v, "y").v IN
    IF discrim = B_q THEN FullQuery_from_bencode(b)
    ELSE IF discrim = B_r THEN FullResponse_from_bencode(b)
    ELSE IF discrim = B_e THEN DhtError_from_bencode(b)
    ELSE Err("InvalidDiscrim")

(***************************************************************************)
(* The handlers of main.rs                                                 *)
(***************************************************************************)
\* socket addresses: the bootstrap node of serve() and one other peer
Bootstrap == "212.129.33.50:6881"
Peer == "198.51.100.7:6881"
Addrs == {Bootstrap, Peer}

\* values of the random bytes drawn by TxId::random (0 and 52 give the same
\* letter 'A', 26 gives 'a')
RandBytes == {0, 26, 52}

\* what UdpSocket::send_to can answer: everything was sent, only a part of
\* it, nothing (Ok(None)), or an I/O error
SendOutcomes == {"Full", "Partial", "Nothing", "IoError"}

\* ServerHandler::send as it would be with the timeout armed before the
\* socket's answer is looked at
send_arm_first(st, dest, query, r1, r2, outcome) ==
    LET tx_id == TxId_random(r1, r2)
        full  == [query |-> query, sender_id |-> OurId, tx_id |-> tx_id]
        armed == [sent   |-> st.sent, timers |-> st.timers \cup {Len(st.sent) + 1}]
    IN  IF outcome = "IoError" THEN [st |-> st, res |-> "Err"]
        ELSE IF outcome = "Nothing" THEN [st |-> armed, res |-> "Err"]
        ELSE IF outcome = "Partial" THEN [st |-> armed, res |-> "Panic"]
        ELSE [st  |-> [sent   |-> Append(st.sent, [dest |-> dest, full |-> full]),
                       timers |-> st.timers \cup {Len(st.sent) + 1}],
              res |-> "Ok"]

\* ServerHandler::send on the state [sent, timers]: the query goes out with a
\* fresh random tx id and, once the socket took it whole, one timeout is armed
send(st, dest, query, r1, r2, outcome) ==
    LET tx_id == TxId_random(r1, r2)
        full  == [query |-> query, sender_id |-> OurId, tx_id |-> tx_id]
    IN  IF outcome = "IoError" THEN [st |-> st, res |-> "Err"]
        ELSE IF outcome = "Nothing" THEN [st |-> st, res |-> "Err"]
        ELSE IF outcome = "Partial" THEN [st |-> st, res |-> "Panic"]
        ELSE [st  |-> [sent   |-> Append(st.sent, [dest |-> dest, full |-> full]),
                       timers |-> st.timers \cup {Len(st.sent) + 1}],
              res |-> "Ok"]

\* serve(): the handler is built and the first Ping goes to the bootstrap
\* node; an error ends the process, otherwise the event loop runs
ServeWith(r1, r2, outcome) ==
    /\ estate = "init"
    /\ LET r == send([sent |-> sent, timers |-> timers], Bootstrap, "Ping",
                     r1, r2, outcome)
       IN  /\ sent' = r.st.sent
           /\ timers' = r.st.timers
           /\ estate' = IF r.res = "Ok" THEN "running"
                        ELSE IF r.res = "Err" THEN "exited" ELSE "panicked"
    /\ UNCHANGED <<fired, answered, tvars, fvars>>

\* the timeouts still armed whose query carries the bytes of tx id `tx`
Outstanding(tx) == {i \in timers : as_slice(sent[i].full.tx_id) = as_slice(tx)}

\* inbound datagrams: what the bencode parser made of them
SomeId == At(OurId, 128, 0)
TxBytes == {as_slice(sent[i].full.tx_id) : i \in 1..Len(sent)} \cup {<<88, 88>>, <<1, 2, 3>>}
Pong(tx) == BDict([y |-> BBytes(B_r), t |-> BBytes(tx), r |-> BDict([id |-> BBytes(SomeId)])])
PingQuery(tx) ==
    BDict([y |-> BBytes(B_q), q |-> BBytes(B_ping), t |-> BBytes(tx),
           a |-> BDict([id |-> BBytes(SomeId)])])
ErrorMsg(tx) ==
    BDict([y |-> BBytes(B_e), t |-> BBytes(tx), e |-> BList(<<BNumber(<<0, 201>>), BBytes(<<33, 255>>)>>)])
Malformed ==
    {BBytes(B_r), BDict([t |-> BBytes(<<88, 88>>)]), BDict([y |-> BBytes(<<120>>)]),
     BDict([y |-> BBytes(B_r), t |-> BBytes(<<88, 88>>)]),
     BDict([y |-> BBytes(B_r), t |-> BBytes(<<88, 88>>), r |-> BDict([id |-> BBytes(<<1>>)])])}
Inbound ==
    {Pong(tx) : tx \in TxBytes} \cup {PingQuery(tx) : tx \in TxBytes}
    \cup {ErrorMsg(tx) : tx \in TxBytes} \cup Malformed

\* ServerHandler::received: the message is decoded and printed
received(addr, msg) ==
    IF DhtMessage_from_bencode(msg).ok THEN "Ok" ELSE "Err"

\* what UdpSocket::recv_from can answer: a datagram, nothing (Ok(None)) or an
\* I/O error
RecvOutcomes == {"Datagram", "Nothing", "IoError"}

\* ServerHandler::ready as it would be with the results of the parser and of
\* received unwrapped instead of printed
ready_unwrap(recv, len, parsed, addr, msg) ==
    IF recv # "Datagram" THEN "Printed"
    ELSE IF ~(len < 512) THEN "Panic"
    ELSE IF ~parsed THEN "Panic"
    ELSE IF received(addr, msg) = "Ok" THEN "Valid" ELSE "Panic"

\* ServerHandler::ready as it would be with assert!(len <= 512)
ready_inclusive(recv, len, parsed, addr, msg) ==
    IF recv # "Datagram" THEN "Printed"
    ELSE IF ~(len <= 512) THEN "Panic"
    ELSE IF ~parsed THEN "Printed"
    ELSE IF received(addr, msg) = "Ok" THEN "Valid" ELSE "Printed"

\* ServerHandler::ready on what recv_from answered: for a datagram of `len`
\* bytes, 512 bytes fail the assertion; otherwise the bytes are parsed
\* (parsed = FALSE: bencode::from_buffer fails), the message is handed to
\* received, and the outcome is printed
ready(recv, len, parsed, addr, msg) ==
    IF recv # "Datagram" THEN "Printed"
    ELSE IF ~(len < 512) THEN "Panic"
    ELSE IF ~parsed THEN "Printed"
    ELSE IF received(addr, msg) = "Ok" THEN "Valid" ELSE "Printed"

\* a readiness event as it would be with a handler that pings back whoever
\* sent it a query
ReadyOnReplying(ev) ==
    LET out == ready(ev.recv, ev.len, ev.parsed, ev.addr, ev.msg)
        isq == out = "Valid" /\ DhtMessage_from_bencode(ev.msg).v.kind = "Query"
        r   == send([sent |-> sent, timers |-> timers], ev.addr, "Ping", 0, 0, "Full")
    IN  /\ estate = "running"
        /\ estate' = IF out = "Panic" THEN "panicked" ELSE estate
        /\ answered' = answered
        /\ sent' = IF isq THEN r.st.sent ELSE sent
        /\ timers' = IF isq THEN r.st.timers ELSE timers
        /\ UNCHANGED <<fired, tvars, fvars>>

\* a readiness event of the socket: nothing of the handler changes, whatever
\* was received
ReadyOn(ev) ==
        LET out == ready(ev.recv, ev.len, ev.parsed, ev.addr, ev.msg)
        IN  /\ estate = "running"
            /\ estate' = IF out = "Panic" THEN "panicked" ELSE estate
            /\ answered' =
                  IF out = "Valid" /\ DhtMessage_from_bencode(ev.msg).v.kind = "Response"
                  THEN answered \cup Outstanding(DhtMessage_from_bencode(ev.msg).v.tx_id)
                  ELSE answered
            /\ UNCHANGED <<sent, timers, fired, tvars, fvars>>

\* ServerHandler::timeout with the one-shot timeout of query i as retried by
\* a handler that sends the query again
TimeoutRetry(i) ==
    /\ estate = "running"
    /\ i \in timers
    /\ fired' = Append(fired, i)
    /\ sent' = Append(sent, sent[i])
    /\ timers' = (timers \ {i}) \cup {Len(sent) + 1}
    /\ UNCHANGED <<estate, answered, event, tvars, fvars>>

\* ServerHandler::timeout: the one-shot timeout armed for query i fires and
\* is printed
Timeout(i) ==
    /\ estate = "running"
    /\ i \in timers
    /\ fired' = Append(fired, i)
    /\ timers' = timers \ {i}
    /\ UNCHANGED <<estate, sent, answered, event, tvars, fvars>>

\* C8: no two outstanding transactions carry the same tx id: a query that
\* send puts out has a tx id that no armed timeout's query carries
C8_OutstandingTxIdsDistinct ==
    \A i \in timers : \A j \in timers :
        i # j => as_slice(sent[i].full.tx_id) # as_slice(sent[j].full.tx_id)

\* C9: the timeout of a query never fires once a response with the query's
\* tx id has arrived while the timeout was armed
C9_NoTimeoutAfterResponse ==
    \A k \in 1..Len(fired) : fired[k] \notin answered

\* C10: a step in which a timeout fires sends nothing and arms nothing, and no
\* timeout fires twice
C10_TimeoutIsFinal ==
    /\ [](\A k \in 1..Len(fired) : \A l \in 1..Len(fired) : k # l => fired[k] # fired[l])
    /\ [][fired' # fired =>
            /\ sent' = sent
            /\ timers' = timers \ {fired'[Len(fired')]}]_vars

\* the timeout of the Ping that serve sent has fired
C10_Witness == estate = "running" /\ fired = <<1>> /\ Len(sent) = 1 /\ timers = {}

(***************************************************************************)
(* The process of serve() under observation: `event` keeps what the latest *)
(* call of send or ready met and what it answered                          *)
(***************************************************************************)
\* serve(), with the answer of the socket and the result of send kept
ServeObserved ==
    \E r1 \in RandBytes, r2 \in RandBytes, outcome \in SendOutcomes :
        /\ ServeWith(r1, r2, outcome)
        /\ event' = [h |-> "send", n |-> 1 - event.n, outcome |-> outcome,
                     res |-> send([sent |-> sent, timers |-> timers], Bootstrap,
                                  "Ping", r1, r2, outcome).res]

\* C11 as stated: a timeout is armed only once the socket took the whole
\* query, and when the socket took nothing or only a part of it, send returns
\* an error to its caller and arms no timeout
C11_SendFailsAsError ==
    [][event' # event /\ event'.h = "send" =>
          /\ timers' # timers => event'.outcome = "Full"
          /\ event'.outcome \in {"Nothing", "Partial"} =>
                event'.res = "Err" /\ timers' = timers]_vars

\* C11, amended: a timeout is armed only once the socket took the whole
\* query; when the socket took nothing send returns an error to its caller,
\* when it took only a part the assertion on the sent length fails and the
\* process panics; in neither case is a timeout armed
C11_SendFailsOrPanics ==
    [][event' # event /\ event'.h = "send" =>
          /\ timers' # timers => event'.outcome = "Full"
          /\ event'.outcome = "Nothing" => event'.res = "Err" /\ timers' = timers
          /\ event'.outcome = "Partial" => event'.res = "Panic" /\ timers' = timers]_vars

\* the socket took only a part of the first Ping: the process has panicked
\* and no timeout is armed
C11_Witness ==
    event.h = "send" /\ event.outcome = "Partial" /\ estate = "panicked" /\ timers = {}

\* further inbound messages: a find_node query, a response that lists three
\* contacts, and an error whose code does not fit a u32
B_find_node == <<102, 105, 110, 100, 95, 110, 111, 100, 101>>
Contact(k) == At(OurId, 128, k) \o <<8, 8, 8, k>> \o <<26, 225>>
FindNodeQuery(tx) ==
    BDict([y |-> BBytes(B_q), q |-> BBytes(B_find_node), t |-> BBytes(tx),
           a |-> BDict([id |-> BBytes(SomeId), target |-> BBytes(OurId)])])
FoundNodes(tx) ==
    BDict([y |-> BBytes(B_r), t |-> BBytes(tx),
           r |-> BDict([id |-> BBytes(SomeId),
                        nodes |-> BBytes(Contact(1) \o Contact(2) \o Contact(3))])])
BigErrorMsg(tx) ==
    BDict([y |-> BBytes(B_e), t |-> BBytes(tx), e |-> BList(<<BNumber(<<2, 0>>), BBytes(<<33>>)>>)])
InboundMore ==
    {FindNodeQuery(tx) : tx \in TxBytes} \cup {FoundNodes(tx) : tx \in TxBytes}
    \cup {BigErrorMsg(<<88, 88>>)}

\* recv_from fills the 512 bytes of buf at most: the length it reports for a
\* datagram of `size` bytes
recv_len(size) == IF size < 512 THEN size ELSE 512

\* what a readiness event can meet: no datagram, an I/O error, a datagram
\* that does not parse, or one that parsed as `msg`, each with its own
\* size.  Datagrams of 40 or 511 bytes carry every message, those of 512 or
\* 513 bytes one well-formed Pong
NoMsg == BBytes(<<>>)

ServeEvents ==
    {[recv |-> r, size |-> 0, len |-> 0, parsed |-> FALSE, addr |-> Bootstrap, msg |-> NoMsg] :
        r \in {"Nothing", "IoError"}}
    \cup {[recv |-> "Datagram", size |-> z, len |-> recv_len(z), parsed |-> FALSE,
            addr |-> a, msg |-> NoMsg] : z \in {40, 511, 512, 513}, a \in Addrs}
    \cup {[recv |-> "Datagram", size |-> z, len |-> recv_len(z), parsed |-> TRUE,
            addr |-> a, msg |-> m] :
            z \in {40, 511}, a \in Addrs, m \in Inbound \cup InboundMore}
    \cup {[recv |-> "Datagram", size |-> z, len |-> recv_len(z), parsed |-> TRUE,
            addr |-> Bootstrap, msg |-> Pong(<<88, 88>>)] : z \in {512, 513}}

\* why ready printed an error for the datagram of event ev: the parser
\* failed ("Parse"), or received returned the decode error; "" otherwise
failure(ev) ==
    IF ev.recv # "Datagram" \/ ~(ev.len < 512) THEN ""
    ELSE IF ~ev.parsed THEN "Parse"
    ELSE IF ~DhtMessage_from_bencode(ev.msg).ok THEN DhtMessage_from_bencode(ev.msg).e
    ELSE ""

\* a readiness event, with what was received and what ready made of it kept
ReadyObserved ==
    \E ev \in ServeEvents :
        /\ ReadyOn(ev)
        /\ event' = [h |-> "ready", n |-> 1 - event.n, ev |-> ev,
                     out |-> ready(ev.recv, ev.len, ev.parsed, ev.addr, ev.msg),
                     fail |-> failure(ev)]

ServeNext ==
    \/ ServeObserved
    \/ ReadyObserved
    \/ \E i \in timers : Timeout(i)

SpecServe == Init /\ [][ServeNext]_vars

(***************************************************************************)
(* ServerHandler::send on its own: one call of send on a handler whose     *)
(* first Ping is out.  serve() is the only caller of send in main.rs and   *)
(* calls it once, so this call is one that a user of the handler would add *)
(***************************************************************************)
\* the states in which the event loop runs after serve(): the Ping is out
\* with any tx id; its timeout is armed or has fired, and a response with
\* its tx id has arrived or has not
SendInit ==
    /\ TableInit
    /\ FnIdle
    /\ estate = "running"
    /\ \E r1 \in RandBytes, r2 \in RandBytes :
          sent = send([sent |-> <<>>, timers |-> {}], Bootstrap, "Ping",
                      r1, r2, "Full").st.sent
    /\ \E f \in BOOLEAN :
          /\ timers = IF f THEN {} ELSE {1}
          /\ fired = IF f THEN <<1>> ELSE <<>>
    /\ answered \in {{}, {1}}
    /\ event = [h |-> "none", n |-> 0]

\* one call of ServerHandler::send(dest, Ping)
SendCalled ==
    \E dest \in Addrs, r1 \in RandBytes, r2 \in RandBytes, outcome \in SendOutcomes :
        /\ estate = "running"
        /\ Len(sent) = 1
        /\ \E r \in {send([sent |-> sent, timers |-> timers], dest, "Ping",
                           r1, r2, outcome)} :
              /\ sent' = r.st.sent
              /\ timers' = r.st.timers
              /\ estate' = IF r.res = "Panic" THEN "panicked" ELSE estate
        /\ UNCHANGED <<fired, answered, event, tvars, fvars>>

SpecSend == SendInit /\ [][SendCalled]_vars

\* the kinds of DecodeError, and "Parse" for a datagram that is no bencode
DecodeFailures ==
    {"Parse", "KeyMissing", "WrongType", "WrongDiscrim", "InvalidDiscrim", "WrongLength",
     "OutOfRange", "InvalidAddress"}

\* C12: a datagram that fails bencode parsing or typed decoding changes
\* nothing of the handler or the table, and the event loop keeps running
C12_DecodeFailureDiscarded ==
    [][event' # event /\ event'.h = "ready" /\ event'.fail \in DecodeFailures =>
          /\ estate' = "running"
          /\ event'.out = "Printed"
          /\ UNCHANGED <<sent, timers, fired, answered, tvars>>]_vars

\* ready has just printed the WrongLength of a response whose node id has one
\* byte, and the event loop runs on
C12_Witness ==
    /\ event.h = "ready"
    /\ event.fail = "WrongLength"
    /\ event.out = "Printed"
    /\ estate = "running"

\* C13 as stated: of the datagrams received, exactly those of more than 512
\* bytes fail the assertion; those of up to 512 bytes are parsed
C13_Accepts512 ==
    (event.h = "ready" /\ event.ev.recv = "Datagram") =>
        (event.out = "Panic" <=> event.ev.size > 512)

\* C13, amended: of the datagrams received, exactly those of 512 bytes or
\* more, which fill the buffer, fail the assertion; those of up to 511 bytes
\* are parsed
C13_Accepts511 ==
    (event.h = "ready" /\ event.ev.recv = "Datagram") =>
        (event.out = "Panic" <=> event.ev.size >= 512)

\* a datagram of exactly 512 bytes has failed the assertion
C13_Witness ==
    /\ event.h = "ready"
    /\ event.ev.recv = "Datagram"
    /\ event.ev.size = 512
    /\ event.out = "Panic"
    /\ estate = "panicked"

\* the datagram of event e was handed to received as a well-formed message m
Handled(e, m) ==
    /\ e.h = "ready"
    /\ e.ev.recv = "Datagram"
    /\ e.ev.len < 512
    /\ e.ev.parsed
    /\ e.ev.msg = m

\* the bytes of the first query's tx id
FirstTx == as_slice(sent[1].full.tx_id)

\* C14: once the Pong with the tx id of the first Ping has come from the
\* bootstrap address, the table holds the responder in a Good slot and a
\* FindNode query has gone out to the bootstrap address
C14_BootstrapPong ==
    (Len(sent) >= 1 /\ Handled(event, Pong(FirstTx)) /\ event.ev.addr = Bootstrap) =>
        /\ \E p \in Holding(SomeId) : buckets[p[1] + 1][p[2] + 1].state = "Good"
        /\ \E i \in 1..Len(sent) :
              sent[i].dest = Bootstrap /\ sent[i].full.query = "FindNode"

\* C15: a Pong with the tx id of the first Ping, still outstanding, that
\* comes from another address than the one pinged is rejected by received and
\* leaves the table as it was
C15_WrongAddressRejected ==
    [][(/\ event' # event
        /\ 1 \in timers
        /\ Handled(event', Pong(FirstTx))
        /\ event'.ev.addr # sent[1].dest) =>
          event'.out # "Valid" /\ UNCHANGED tvars]_vars

\* C16: a response with the tx id of an outstanding query and from its
\* address that lists three unknown contacts makes three Pings go out, one to
\* each contact, with mutually distinct tx ids
C16_FoundNodesPinged ==
    [][(/\ event' # event
        /\ 1 \in timers
        /\ Handled(event', FoundNodes(FirstTx))
        /\ event'.ev.addr = sent[1].dest) =>
          /\ Len(sent') = Len(sent) + 3
          /\ \A i \in (Len(sent) + 1)..Len(sent') : sent'[i].full.query = "Ping"
          /\ \A i \in (Len(sent) + 1)..Len(sent') : \A j \in (Len(sent) + 1)..Len(sent') :
                i # j => as_slice(sent'[i].full.tx_id) # as_slice(sent'[j].full.tx_id)]_vars

\* the bencode value m is a query named ping or find_node
IsQuery(m) ==
    /\ m.t = "Dict"
    /\ "y" \in DOMAIN m.v
    /\ m.v.y = BBytes(B_q)
    /\ "q" \in DOMAIN m.v
    /\ m.v.q \in {BBytes(B_ping), BBytes(B_find_node)}

\* C17: handling an inbound ping or find_node query sends nothing, arms
\* nothing and changes neither the table nor the record of the queries sent
C17_QueryOnlyLogged ==
    [][(/\ event' # event
        /\ Handled(event', event'.ev.msg)
        /\ IsQuery(event'.ev.msg)) =>
          /\ estate' = estate
          /\ UNCHANGED <<sent, timers, fired, answered, tvars>>]_vars

\* a ping query from the other peer has been decoded and printed while the
\* timeout of the first Ping stays armed and nothing else was sent
C17_Witness ==
    /\ Handled(event, event.ev.msg)
    /\ IsQuery(event.ev.msg)
    /\ event.ev.msg.v.q = BBytes(B_ping)
    /\ event.ev.addr = Peer
    /\ event.out = "Valid"
    /\ estate = "running"
    /\ timers = {1}
    /\ Len(sent) = 1

(***************************************************************************)
(* TxId, NodeId, queries, contact records and responses of messages.rs.    *)
(* A TxId is [form |-> "Short", two |-> <<a, b>>] or                       *)
(* [form |-> "Arbitrary", bytes |-> ...]; bytes, dict and lookup are the   *)
(* same helpers as in main.rs                                              *)
(***************************************************************************)
\* TxId::as_slice
messages_as_slice(tx) == IF tx.form = "Short" THEN tx.two ELSE tx.bytes

\* impl PartialEq for TxId
TxId_eq(a, b) == messages_as_slice(a) = messages_as_slice(b)

\* impl Hash for TxId: the bytes written to the hasher
TxId_hash(tx) == messages_as_slice(tx)

\* TxId::to_bencode
messages_TxId_to_bencode(tx) == BBytes(messages_as_slice(tx))

\* TxId::from_bencode
messages_TxId_from_bencode(b) ==
    IF ~bytes(b).ok THEN bytes(b)
    ELSE IF Len(bytes(b).v) = 2
    THEN Ok([form |-> "Short", two |-> <<bytes(b).v[1], bytes(b).v[2]>>])
    ELSE Ok([form |-> "Arbitrary", bytes |-> bytes(b).v])

\* NodeId::from_slice
from_slice(bs) == IF Len(bs) = NODE_ID_LEN THEN Ok(bs) ELSE Err("WrongLength")

\* NodeId::from_bencode
messages_NodeId_from_bencode(b) == IF ~bytes(b).ok THEN bytes(b) ELSE from_slice(bytes(b).v)

\* NodeId::to_bencode
messages_NodeId_to_bencode(n) == BBytes(n)

\* Query: Ping or FindNode(target)
Ping == [q |-> "Ping"]
FindNode(target) == [q |-> "FindNode", target |-> target]

\* FullQuery::to_bencode as it would be without the target among the args
to_bencode_no_target(full) ==
    LET args == [id |-> messages_NodeId_to_bencode(full.sender_id)]
        query_type == IF full.query.q = "Ping" THEN B_ping ELSE B_find_node
    IN  BDict([y |-> BBytes(B_q), q |-> BBytes(query_type),
               t |-> messages_TxId_to_bencode(full.tx_id), a |-> BDict(args)])

\* FullQuery::to_bencode
messages_FullQuery_to_bencode(full) ==
    LET args == IF full.query.q = "Ping"
                THEN [id |-> messages_NodeId_to_bencode(full.sender_id)]
                ELSE [id |-> messages_NodeId_to_bencode(full.sender_id),
                      target |-> messages_NodeId_to_bencode(full.query.target)]
        query_type == IF full.query.q = "Ping" THEN B_ping ELSE B_find_node
    IN  BDict([y |-> BBytes(B_q), q |-> BBytes(query_type),
               t |-> messages_TxId_to_bencode(full.tx_id), a |-> BDict(args)])

\* FullQuery::from_bencode
messages_FullQuery_from_bencode(b) ==
    IF ~dict(b).ok THEN dict(b) ELSE
    LET d == dict(b).v IN
    IF ~lookup_bytes(d, "y").ok THEN lookup_bytes(d, "y") ELSE
    IF lookup_bytes(d, "y").v # B_q THEN Err("WrongDiscrim") ELSE
    IF ~lookup_dict(d, "a").ok THEN lookup_dict(d, "a") ELSE
    LET args == lookup_dict(d, "a").v IN
    IF ~lookup(args, "id").ok THEN lookup(args, "id") ELSE
    LET sender_id == messages_NodeId_from_bencode(args["id"]) IN
    IF ~sender_id.ok THEN sender_id ELSE
    IF ~lookup(d, "t").ok THEN lookup(d, "t") ELSE
    LET tx_id == messages_TxId_from_bencode(d["t"]) IN
    IF ~tx_id.ok THEN tx_id ELSE
    IF ~lookup_bytes(d, "q").ok THEN lookup_bytes(d, "q") ELSE
    LET name == lookup_bytes(d, "q").v IN
    IF name = B_ping
    THEN Ok([query |-> Ping, sender_id |-> sender_id.v, tx_id |-> tx_id.v])
    ELSE IF name = B_find_node
    THEN IF ~lookup(args, "target").ok THEN lookup(args, "target") ELSE
         LET target == messages_NodeId_from_bencode(args["target"]) IN
         IF ~target.ok THEN target ELSE
         Ok([query |-> FindNode(target.v), sender_id |-> sender_id.v, tx_id |-> tx_id.v])
    ELSE Err("InvalidDiscrim")

\* Ipv4Addr::is_global of the standard library, as Peer4Info::parse calls it:
\* not in 0.0.0.0/8, private, shared (100.64.0.0/10), loopback, link-local,
\* reserved for future protocols (192.0.0.0/24 but for .9 and .10),
\* documentation, benchmarking (198.18.0.0/15), reserved (240.0.0.0/4) or
\* broadcast.  (A standard library of the time the code was written knew
\* private, loopback, link-local, broadcast, documentation and 0.0.0.0 only.)
is_global(ip) ==
    LET is_this_network == ip[1] = 0
        is_private == \/ ip[1] = 10
                      \/ ip[1] = 172 /\ ip[2] >= 16 /\ ip[2] <= 31
                      \/ ip[1] = 192 /\ ip[2] = 168
        is_shared == ip[1] = 100 /\ ip[2] >= 64 /\ ip[2] <= 127
        is_loopback == ip[1] = 127
        is_link_local == ip[1] = 169 /\ ip[2] = 254
        is_future_protocol == /\ ip[1] = 192 /\ ip[2] = 0 /\ ip[3] = 0
                              /\ ip[4] # 9 /\ ip[4] # 10
        is_documentation == \/ ip[1] = 192 /\ ip[2] = 0 /\ ip[3] = 2
                            \/ ip[1] = 198 /\ ip[2] = 51 /\ ip[3] = 100
                            \/ ip[1] = 203 /\ ip[2] = 0 /\ ip[3] = 113
        is_benchmarking == ip[1] = 198 /\ ip[2] >= 18 /\ ip[2] <= 19
        is_broadcast == ip = <<255, 255, 255, 255>>
        is_reserved == ip[1] >= 240 /\ ~is_broadcast
    IN  ~(\/ is_this_network \/ is_private \/ is_shared \/ is_loopback
          \/ is_link_local \/ is_future_protocol \/ is_documentation
          \/ is_benchmarking \/ is_reserved \/ is_broadcast)

\* Peer4Info::parse as it would be with the port read low byte first
parse_port_little_endian(b) ==
    IF Len(b) # 6 THEN Err("WrongLength")
    ELSE LET ip == <<b[1], b[2], b[3], b[4]>>
             port == ((b[6] * 256) % 65536) + b[5]
         IN  IF ~is_global(ip) THEN Err("InvalidAddress")
             ELSE IF port = 0 THEN Err("OutOfRange")
             ELSE Ok([ip |-> ip, port |-> port])

\* Peer4Info::parse; the port is a u16
Peer4Info_parse(b) ==
    IF Len(b) # 6 THEN Err("WrongLength")
    ELSE LET ip == <<b[1], b[2], b[3], b[4]>>
             port == ((b[5] * 256) % 65536) + b[6]
         IN  IF ~is_global(ip) THEN Err("InvalidAddress")
             ELSE IF port = 0 THEN Err("OutOfRange")
             ELSE Ok([ip |-> ip, port |-> port])

NODE4_LEN == NODE_ID_LEN + 6

\* Node4Info::parse
Node4Info_parse(bs) ==
    IF Len(bs) = NODE4_LEN
    THEN LET nid  == from_slice(SubSeq(bs, 1, NODE_ID_LEN))
             peer == Peer4Info_parse(SubSeq(bs, NODE_ID_LEN + 1, Len(bs)))
         IN  IF ~nid.ok THEN nid
             ELSE IF ~peer.ok THEN peer
             ELSE Ok([id |-> nid.v, peer |-> peer.v])
    ELSE Err("WrongLength")

\* the loop of parse_list over the chunks of NODE4_LEN bytes from chunk k on,
\* `nodes` holding what was pushed so far
RECURSIVE parse_chunks(_, _, _)
parse_chunks(bs, k, nodes) ==
    IF k * NODE4_LEN >= Len(bs) THEN Ok(nodes)
    ELSE LET entry == Node4Info_parse(SubSeq(bs, k * NODE4_LEN + 1, (k + 1) * NODE4_LEN))
         IN  IF ~entry.ok THEN entry
             ELSE parse_chunks(bs, k + 1, Append(nodes, entry.v))

\* Node4Info::parse_list
parse_list(bs) ==
    IF Len(bs) % NODE4_LEN # 0 THEN Err("WrongLength")
    ELSE parse_chunks(bs, 0, <<>>)

\* the outcome of a decoder that panicked
Panicked == [ok |-> FALSE, e |-> "panic"]

\* Response: Pong or FoundNodes {nodes4}
ResponsePong == [r |-> "Pong"]
ResponseFoundNodes(nodes4) == [r |-> "FoundNodes", nodes4 |-> nodes4]

\* FullResponse::from_bencode
messages_FullResponse_from_bencode(b) ==
    IF ~dict(b).ok THEN dict(b) ELSE
    LET d == dict(b).v IN
    IF ~lookup_bytes(d, "y").ok THEN lookup_bytes(d, "y") ELSE
    IF lookup_bytes(d, "y").v # B_r THEN Err("WrongDiscrim") ELSE
    IF ~lookup_dict(d, "r").ok THEN lookup_dict(d, "r") ELSE
    LET args == lookup_dict(d, "r").v
        nodes == IF ~lookup_bytes(args, "nodes").ok THEN lookup_bytes(args, "nodes")
                 ELSE parse_list(lookup_bytes(args, "nodes").v)
        response == IF lookup(args, "nodes").ok THEN ResponseFoundNodes(nodes.v)
                    ELSE ResponsePong
    IN
    IF lookup(args, "token").ok THEN Panicked ELSE
    IF lookup(args, "nodes").ok /\ ~nodes.ok THEN nodes ELSE
    IF ~lookup(args, "id").ok THEN lookup(args, "id") ELSE
    LET sender_id == messages_NodeId_from_bencode(args["id"]) IN
    IF ~sender_id.ok THEN sender_id ELSE
    IF ~lookup(d, "t").ok THEN lookup(d, "t") ELSE
    LET tx_id == messages_TxId_from_bencode(d["t"]) IN
    IF ~tx_id.ok THEN tx_id ELSE
    Ok([response |-> response, sender_id |-> sender_id.v, tx_id |-> tx_id.v])

(***************************************************************************)
(* The message functions of messages.rs on inputs drawn from bounded sets  *)
(***************************************************************************)
SeqsUpTo(S, n) == UNION {[1..k -> S] : k \in 0..n}

CodecIds == {Zero, OurId, SomeId}
ShortTxIds == {[form |-> "Short", two |-> <<a, b>>] : a \in {0, 65, 255}, b \in {0, 65, 255}}
ArbitraryTxIds == {[form |-> "Arbitrary", bytes |-> bs] : bs \in SeqsUpTo({0, 65, 255}, MaxTxLen)}
TxIds == ShortTxIds \cup ArbitraryTxIds
Queries == {Ping} \cup {FindNode(t) : t \in CodecIds}
FullQueries ==
    {[query |-> q, sender_id |-> n, tx_id |-> tx] : q \in Queries, n \in CodecIds, tx \in TxIds}

\* IPv4 addresses that are globally routable, and addresses that are not:
\* unspecified, private, loopback, link-local, documentation, broadcast
GlobalIps == {<<8, 8, 8, 8>>, <<212, 129, 33, 50>>}
NonGlobalIps ==
    {<<0, 0, 0, 0>>, <<10, 1, 2, 3>>, <<127, 0, 0, 1>>, <<169, 254, 1, 1>>, <<172, 16, 0, 1>>,
     <<192, 168, 1, 1>>, <<192, 0, 2, 1>>, <<255, 255, 255, 255>>}
Ports == {<<0, 0>>, <<0, 1>>, <<1, 0>>, <<26, 225>>, <<255, 255>>}

\* the 26-byte contact record of node nid at ip, port
RecordOf(nid, ip, port) == nid \o ip \o port
Records ==
    {RecordOf(n, ip, p) : n \in {OurId, SomeId}, ip \in GlobalIps \cup NonGlobalIps, p \in Ports}
GoodRecords ==
    {RecordOf(SomeId, <<8, 8, 8, 8>>, <<26, 225>>), RecordOf(OurId, <<212, 129, 33, 50>>, <<0, 1>>)}
BadRecords ==
    {RecordOf(SomeId, <<0, 0, 0, 0>>, <<26, 225>>), RecordOf(SomeId, <<8, 8, 8, 8>>, <<0, 0>>)}

RECURSIVE Flatten(_)
Flatten(recs) == IF recs = <<>> THEN <<>> ELSE Head(recs) \o Flatten(Tail(recs))

\* a response from SomeId with tx id "XX" and the args `more` besides the id
ResponseWith(more) ==
    BDict([y |-> BBytes(B_r), t |-> BBytes(<<88, 88>>),
           r |-> BDict([id |-> BBytes(SomeId)] @@ more)])

QueryInputs == {[op |-> "query", full |-> f] : f \in FullQueries}
TxIdInputs == {[op |-> "txid", a |-> a, b |-> b] : a \in TxIds, b \in TxIds}
RecordInputs ==
    {[op |-> "record", bytes |-> bs] : bs \in Records}
    \cup {[op |-> "record", bytes |-> SubSeq(bs, 1, 25)] : bs \in GoodRecords}
    \cup {[op |-> "record", bytes |-> bs \o <<0>>] : bs \in GoodRecords}
ResponseInputs ==
    {[op |-> "response", shape |-> "nodes", recs |-> recs,
      msg |-> ResponseWith([nodes |-> BBytes(Flatten(recs))])] :
        recs \in SeqsUpTo(GoodRecords \cup BadRecords, MaxNodes)}
    \cup {[op |-> "response", shape |-> "pong", recs |-> <<>>, msg |-> ResponseWith(<<>>)],
           [op |-> "response", shape |-> "token", recs |-> <<>>,
            msg |-> ResponseWith([token |-> BBytes(<<1>>)])],
           [op |-> "response", shape |-> "ragged", recs |-> <<>>,
            msg |-> ResponseWith([nodes |-> BBytes(<<1, 2, 3>>)])]}

CodecInit ==
    /\ \/ cin \in QueryInputs
       \/ cin \in TxIdInputs
       \/ cin \in RecordInputs
       \/ cin \in ResponseInputs
    /\ cout = <<>>
    /\ fa = Zero
    /\ fb = Zero
    /\ fres = <<>>

\* full.to_bencode()
QueryToBencode ==
    /\ cin.op = "query"
    /\ Len(cout) = 0
    /\ cout' = <<messages_FullQuery_to_bencode(cin.full)>>
    /\ UNCHANGED <<cin, fa, fb, fres, tvars, evars>>

\* FullQuery::from_bencode of the value just encoded
QueryFromBencode ==
    /\ cin.op = "query"
    /\ Len(cout) = 1
    /\ cout' = <<cout[1], messages_FullQuery_from_bencode(cout[1])>>
    /\ UNCHANGED <<cin, fa, fb, fres, tvars, evars>>

\* the id tx as a value of the TxId of main.rs: the same variant with the
\* same bytes
MainTxId(tx) == [form |-> tx.form, bytes |-> messages_as_slice(tx)]

\* a == b and the hashes of a and b with the TxId of messages.rs, and a == b
\* with the TxId of main.rs, which has no Hash
TxIdCompare ==
    /\ cin.op = "txid"
    /\ Len(cout) = 0
    /\ cout' = <<[eq |-> TxId_eq(cin.a, cin.b), ha |-> TxId_hash(cin.a),
                  hb |-> TxId_hash(cin.b),
                  main_eq |-> main_TxId_eq(MainTxId(cin.a), MainTxId(cin.b))]>>
    /\ UNCHANGED <<cin, fa, fb, fres, tvars, evars>>

\* Node4Info::parse(bytes)
RecordParse ==
    /\ cin.op = "record"
    /\ Len(cout) = 0
    /\ cout' = <<Node4Info_parse(cin.bytes)>>
    /\ UNCHANGED <<cin, fa, fb, fres, tvars, evars>>

\* FullResponse::from_bencode(msg)
ResponseFromBencode ==
    /\ cin.op = "response"
    /\ Len(cout) = 0
    /\ cout' = <<messages_FullResponse_from_bencode(cin.msg)>>
    /\ UNCHANGED <<cin, fa, fb, fres, tvars, evars>>

CodecNext ==
    \/ QueryToBencode
    \/ QueryFromBencode
    \/ TxIdCompare
    \/ RecordParse
    \/ ResponseFromBencode

CodecSpecInit == TableInit /\ CodecInit /\ EngineIdle

SpecCodec == CodecSpecInit /\ [][CodecNext]_vars

\* C18: decoding the bencode value of a FullQuery gives back the query
\* variant and its target, the sender id and an equal tx id, which is in the
\* short form whenever it has 2 bytes
C18_QueryRoundTrip ==
    (cin.op = "query" /\ Len(cout) = 2) =>
        /\ cout[2].ok
        /\ cout[2].v.query.q = cin.full.query.q
        /\ cin.full.query.q = "FindNode" =>
              cout[2].v.query.target = cin.full.query.target
        /\ cout[2].v.sender_id = cin.full.sender_id
        /\ TxId_eq(cout[2].v.tx_id, cin.full.tx_id)
        /\ Len(messages_as_slice(cin.full.tx_id)) = 2 => cout[2].v.tx_id.form = "Short"

\* a FindNode query whose tx id held 2 bytes in the arbitrary form has been
\* encoded and decoded, and its tx id has come back in the short form
C18_Witness ==
    /\ cin.op = "query"
    /\ Len(cout) = 2
    /\ cin.full.query.q = "FindNode"
    /\ cin.full.query.target = OurId
    /\ cin.full.tx_id.form = "Arbitrary"
    /\ Len(cin.full.tx_id.bytes) = 2
    /\ cout[2].ok
    /\ cout[2].v.tx_id.form = "Short"

\* the bytes a tx id holds, whichever form stores them
Raw(tx) == IF tx.form = "Short" THEN <<tx.two[1], tx.two[2]>> ELSE tx.bytes

\* C19: two tx ids compare equal iff they hold the same bytes, and then
\* they hash alike, whichever form stores the bytes: with the TxId of
\* messages.rs and with the TxId of main.rs
C19_TxIdEqualityOnBytes ==
    (cin.op = "txid" /\ Len(cout) = 1) =>
        /\ cout[1].eq <=> Raw(cin.a) = Raw(cin.b)
        /\ cout[1].main_eq <=> Raw(cin.a) = Raw(cin.b)
        /\ Raw(cin.a) = Raw(cin.b) => cout[1].ha = cout[1].hb

\* C20: a 26-byte contact record is rejected with a decode error when its
\* address is not globally routable or its port is 0, and otherwise accepted
\* with the first 20 bytes as id, the next 4 as address and 256 * byte 24 +
\* byte 25 as port; a response whose contact list holds one record that fails
\* fails as a whole, and otherwise decodes to as many contacts as records
C20_ContactRecordDecoding ==
    /\ (cin.op = "record" /\ Len(cin.bytes) = NODE_ID_LEN + 6 /\ Len(cout) = 1) =>
          LET ip   == SubSeq(cin.bytes, NODE_ID_LEN + 1, NODE_ID_LEN + 4)
              port == 256 * cin.bytes[NODE_ID_LEN + 5] + cin.bytes[NODE_ID_LEN + 6]
          IN  IF ip \in NonGlobalIps \/ port = 0
              THEN ~cout[1].ok /\ cout[1].e \in DecodeFailures
              ELSE cout[1] = Ok([id   |-> SubSeq(cin.bytes, 1, NODE_ID_LEN),
                                 peer |-> [ip |-> ip, port |-> port]])
    /\ (cin.op = "response" /\ cin.shape = "nodes" /\ Len(cout) = 1) =>
          IF \E k \in 1..Len(cin.recs) : cin.recs[k] \in BadRecords
          THEN ~cout[1].ok /\ cout[1].e \in DecodeFailures
          ELSE /\ cout[1].ok
               /\ cout[1].v.response.r = "FoundNodes"
               /\ Len(cout[1].v.response.nodes4) = Len(cin.recs)

\* a response listing two good records and then one with port 0 has failed
\* to decode
C20_Witness ==
    /\ cin.op = "response"
    /\ cin.shape = "nodes"
    /\ Len(cin.recs) = 3
    /\ cin.recs[1] \in GoodRecords
    /\ cin.recs[2] \in GoodRecords
    /\ cin.recs[3] = RecordOf(SomeId, <<8, 8, 8, 8>>, <<0, 0>>)
    /\ Len(cout) = 1
    /\ cout[1] = Err("OutOfRange")

(***************************************************************************)
(* Further properties of the table                                         *)
(***************************************************************************)
\* C21: the slot allocate returns, found in the node's bucket or opened by a
\* split, is Empty or holds the node id asked for
C21_ReturnedSlotEmptyOrSame ==
    (pc = "returned" /\ ret # None) =>
        LET slot == buckets[ret[1] + 1][ret[2] + 1]
        IN  is_empty(slot) \/ slot.id = arg

\* allocate has split for a node that shares more bits with us than the
\* table has buckets, a node was moved into the new bucket, and the slot
\* returned is the Empty one after it
C21_Witness ==
    /\ pc = "returned"
    /\ ret # None
    /\ count_zeros(between(id, arg)) >= Len(buckets)
    /\ ret[1] = Len(buckets) - 1
    /\ ret[2] = 1
    /\ ~is_empty(buckets[ret[1] + 1][1])
    /\ is_empty(buckets[ret[1] + 1][ret[2] + 1])

\* C22: a call of allocate for a node that shares at least as many leading
\* bits with us as the table has buckets, on a table of fewer than 161
\* buckets, adds one bucket and returns the lowest Empty slot of the new
\* bucket, or None exactly when the new bucket is full of nodes that were in
\* the old last bucket
C22_SplitReturnsLowestEmpty ==
    [][(/\ pc = "idle"
        /\ pc' # "idle"
        /\ SharedPrefix(id, arg') >= Len(buckets)
        /\ Len(buckets) < MAX_BUCKETS) =>
          /\ Len(buckets') = Len(buckets) + 1
          /\ LET new_bucket == buckets'[Len(buckets')]
                 old_last   == buckets[Len(buckets)]
                 empties    == {s \in 0..(K - 1) : is_empty(new_bucket[s + 1])}
             IN  IF empties = {}
                 THEN /\ ret' = None
                      /\ \A s \in 1..K : \E o \in 1..K : old_last[o] = new_bucket[s]
                 ELSE /\ ret' # None
                      /\ ret'[1] = Len(buckets)
                      /\ ret'[2] \in empties
                      /\ \A e \in empties : ret'[2] <= e]_vars

\* bit b of the id n, counted from the most significant bit of byte 0
BitAt(n, b) == (n[(b \div 8) + 1] \div Pow2(7 - (b % 8))) % 2

\* how many slots of `bucket` hold exactly the node and state v
Count(bucket, v) == Cardinality({s \in 1..K : bucket[s] = v})

\* the nodes, with their states, that sit in `bucket`
NodesOf(bucket) == {bucket[s] : s \in {x \in 1..K : ~is_empty(bucket[x])}}

\* C23: a step that splits the last bucket b moves into the new bucket b+1
\* exactly the nodes of b whose bit b equals our bit b, leaves exactly the
\* others in b, each with its state and as often as it was there, and
\* changes no bucket before b
C23_SplitPartitions ==
    [][Len(buckets') = Len(buckets) + 1 =>
          LET b       == Len(buckets) - 1
              old     == buckets[b + 1]
              stayed  == buckets'[b + 1]
              spilled == buckets'[b + 2]
          IN  /\ \A v \in NodesOf(old) \cup NodesOf(stayed) \cup NodesOf(spilled) :
                    IF BitAt(v.id, b) = BitAt(id, b)
                    THEN Count(spilled, v) = Count(old, v) /\ Count(stayed, v) = 0
                    ELSE Count(stayed, v) = Count(old, v) /\ Count(spilled, v) = 0
              /\ \A k \in 1..b : buckets'[k] = buckets[k]]_vars

\* bucket 0 held a Pinging node that shares our bit 0 and, after it, a Good
\* node that does not; the split made for our own id has moved the first
\* into bucket 1 and left the second, now in slot 0 of bucket 0
C23_Witness ==
    /\ pc = "returned"
    /\ arg = OurId
    /\ Len(buckets) = 2
    /\ ret = <<1, 1>>
    /\ buckets[1][1] = Node(At(OurId, 128, 0), "Good")
    /\ is_empty(buckets[1][2])
    /\ buckets[2][1] = Node(At(OurId, 64, 0), "Pinging")

(***************************************************************************)
(* Splits of a mixed bucket 0: two nodes that share no leading bit with    *)
(* us and two that do, which count_zeros also places in bucket 0, are      *)
(* offered in any order before and after our own id forces the split       *)
(***************************************************************************)
SplitPool == {At(OurId, d, 0) : d \in {128, 129, 64, 32, 0}}

\* a node is offered as long as the table does not hold it
AllocateNew == \E n \in SplitPool : Holding(n) = {} /\ Allocate(n)

SplitNext ==
    \/ AllocateNew
    \/ \E st \in NodeStates : Caller(st)
    \/ CallerLeave

SpecSplit == Init /\ [][SplitNext]_vars

\* C24: in every bucket the occupied slots come first: no Empty slot is
\* followed by an occupied one
C24_BucketsDense ==
    \A b \in 1..Len(buckets) : \A s \in 1..(K - 1) :
        is_empty(buckets[b][s]) => is_empty(buckets[b][s + 1])

\* the split made for our own id has taken two nodes out of a bucket 0 that
\* held four; the two that stayed fill slots 0 and 1 and the rest is Empty
C24_Witness ==
    /\ pc = "returned"
    /\ arg = OurId
    /\ Len(buckets) = 2
    /\ \A b \in 1..2 : \A s \in 1..2 : ~is_empty(buckets[b][s])
    /\ {buckets[1][s].id : s \in 1..2} = {At(OurId, 128, 0), At(OurId, 129, 0)}
    /\ \A s \in 3..K : is_empty(buckets[1][s])
    /\ {buckets[2][s].id : s \in 1..2} = {At(OurId, 64, 0), At(OurId, 32, 0)}
    /\ is_empty(buckets[2][3])

\* the ids held by the table
StoredIds ==
    UNION {{bk[s].id : s \in {x \in 1..K : ~is_empty(bk[x])}} :
              bk \in {buckets[b] : b \in 1..Len(buckets)}}

\* C25: every node id occupies at most one slot of the whole table
C25_NoIdStoredTwice == \A n \in StoredIds : Cardinality(Holding(n)) <= 1

(***************************************************************************)
(* Filling the new bucket: nine distinct nodes that differ from our id in  *)
(* the last byte only, so that every split moves all of them               *)
(***************************************************************************)
\* the k-th near node: its distance is zero up to the last byte, which is k
NearNode(k) == At(OurId, 0, k)

NearIndex(n) == BitXor(n[NODE_ID_LEN], OurId[NODE_ID_LEN])

\* near nodes are offered in increasing order, so that no node is offered twice
AllocateNear ==
    \E k \in 1..(K + 1) :
        /\ arg # <<>> => k > NearIndex(arg)
        /\ AllocateWithin(NearNode(k), MAX_BUCKETS)

FillNext ==
    \/ AllocateNear
    \/ Caller("Good")
    \/ CallerLeave

SpecFill == Init /\ [][FillNext]_vars

\* a call of allocate has just returned None
ReturnsNone == pc = "idle" /\ pc' = "returned" /\ ret' = None

\* C26 as stated: a call that returns None leaves every bucket as it was
C26_NoneLeavesTable == [][ReturnsNone => buckets' = buckets]_vars

\* C26 as amended: a call that returns None leaves every bucket as it was,
\* or it has split the last bucket, whose 8 nodes all moved: the table has
\* one more bucket, which holds them, the old last bucket is Empty
\* throughout, and the buckets before it are as they were
C26_NoneLeavesTableOrMovesAll ==
    [][ReturnsNone =>
          \/ buckets' = buckets
          \/ LET n == Len(buckets)
             IN  /\ Len(buckets') = n + 1
                 /\ \A s \in 1..K : ~is_empty(buckets[n][s])
                 /\ buckets'[n + 1] = buckets[n]
                 /\ buckets'[n] = BucketNew
                 /\ \A k \in 1..(n - 1) : buckets'[k] = buckets[k]]_vars

\* allocate has returned None for the ninth near node: the table has grown
\* to 10 buckets and the last one holds the 8 nodes stored before
C26_Witness ==
    /\ pc = "returned"
    /\ ret = None
    /\ arg = NearNode(K + 1)
    /\ Len(buckets) = K + 2
    /\ \A s \in 1..K : buckets[K + 2][s].tag = "Node" /\ buckets[K + 2][s].id = NearNode(s)

\* C27: no call of allocate fails an assertion of spill, of NodeId::bit or
\* of count_zeros
C27_NoAssertionFails == pc # "panicked"

\* the split at bit index 159 has been made for our own id, on a table of 160
\* buckets whose last bucket held our id 7 times and once the node that
\* differs from it in the lowest bit: that node stays, in slot 0 of bucket
\* 159, the others fill slots 0..6 of the new bucket 160, and slot 7 of it
\* is returned
C27_Witness ==
    /\ pc = "returned"
    /\ arg = OurId
    /\ Len(buckets) = MAX_BUCKETS
    /\ ret = <<MAX_BUCKETS - 1, K - 1>>
    /\ \A s \in 1..(K - 1) : buckets[MAX_BUCKETS][s] = Node(OurId, "Good")
    /\ is_empty(buckets[MAX_BUCKETS][K])
    /\ buckets[MAX_BUCKETS - 1][1] = Node(At(OurId, 0, 1), "Good")
    /\ is_empty(buckets[MAX_BUCKETS - 1][2])

====
